---- MODULE Spec2Model ----
(***************************************************************************)
(* apply_defects.py: the batch loop that turns every entry of              *)
(* z_input/defect_modifications.json into a folder of VASP inputs          *)
(* (supercell build, apply_defect, canonical sort, POSCAR, template        *)
(* copies, NELECT, job script).                                            *)
(*                                                                         *)
(* Encoding of the floating-point geometry.  The lattice is orthorhombic   *)
(* with integer edge lengths (Angstrom).  A fractional coordinate of the   *)
(* supercell along an axis with multiplier n is kept as the integer        *)
(* numerator over grid_size*|n|, so that both the replicated unit-cell     *)
(* positions (unit-cell fractions are tenths) and the points of            *)
(* np.linspace(0, 1, grid_size, endpoint=False) are exact.  A zval is      *)
(* kept in halves of an electron.                                          *)
(***************************************************************************)
EXTENDS Integers, Sequences, FiniteSets, TLC

\* ------------------------------------------------------------------ bounds
MaxDefects == 2
MaxChange == 2
MaxCharge == 1

\* ------------------------------------------------------- program constants
grid_size == 10
min_distance_halves == 3
canonical_order == <<"La", "Y", "Mo", "Pb", "W", "O">>
sort_sentinel == 999

Axes == 1..3
Abs(n) == IF n < 0 THEN -n ELSE n

\* ------------------------------------------------------------------ inputs
\* z_unit_cell/CONTCAR: element and fractional coordinate in tenths.
unitcell_structure ==
    << [el |-> "Pb", c |-> <<0, 0, 0>>, via |-> "cell"],
       [el |-> "W",  c |-> <<5, 5, 5>>, via |-> "cell"],
       [el |-> "O",  c |-> <<5, 5, 0>>, via |-> "cell"],
       [el |-> "O",  c |-> <<0, 0, 5>>, via |-> "cell"] >>

\* Unit-cell edge lengths and --supercell values (with z_input complete).
Cells ==
    { [lattice |-> <<4, 4, 4>>, size |-> <<1, 1, 1>>],
      [lattice |-> <<4, 4, 4>>, size |-> <<2, 1, 1>>],
      [lattice |-> <<2, 2, 2>>, size |-> <<1, 1, 1>>],
      [lattice |-> <<4, 4, 4>>, size |-> <<0, 2, 1>>],
      [lattice |-> <<4, 4, 4>>, size |-> <<-1, -2, 1>>] }

\* Files of z_input that may be absent (with the 4 A cell and --supercell 1 1 1).
MissingSets ==
    { {<<"z_input", "KPOINTS">>},
      {<<"La_Pb_W_O", "POTCAR">>},
      {<<"Pb_W_O", "INCAR">>},
      {<<"z_input", "job.justhpc">>} }

\* The working directories the runs start in.
Worlds ==
    { [lattice |-> c.lattice, size |-> c.size, missing |-> {}] : c \in Cells }
    \cup { [lattice |-> <<4, 4, 4>>, size |-> <<1, 1, 1>>, missing |-> ms] :
              ms \in MissingSets }

\* Keys of defect_modifications.json, as character sequences; n_entries is
\* the number of keys of the document.
Names == { <<"z", "a">>, <<"a", "z">>, <<"v">> }

Entry(e, n) == <<e, n>>

\* "delta" values of defect_modifications.json, in key order (the keys of a
\* dict are distinct).
Deltas ==
    { <<>> }
    \cup { <<Entry(E, -k), Entry(F, k)>> :
             E \in {"Pb", "O"}, F \in {"La", "Mo"}, k \in 1..MaxChange }
    \cup { <<Entry("La", k), Entry("Pb", -k)>> : k \in 1..MaxChange }
    \cup { <<Entry("O", k)>> : k \in 1..MaxChange }
    \cup { <<Entry("Pb", -1), Entry("La", 1), Entry("Y", 1)>>,
           <<Entry("Pb", -1), Entry("Y", MaxChange)>>,
           <<Entry("O", -1), Entry("Pb", -MaxChange)>>,
           <<Entry("O", MaxChange), Entry("La", 1)>>,
           <<Entry("W", -1), Entry("O", -1), Entry("Y", 1), Entry("Mo", 1)>> }

Charges == (-MaxCharge)..MaxCharge

\* ZVAL of each POTCAR entry, in halves of an electron.
ZvalHalves ==
    [e \in {"La", "Y", "Mo", "Pb", "W", "O"} |->
        CASE e = "La" -> 22 [] e = "Y" -> 23 [] e = "Mo" -> 28
          [] e = "Pb" -> 8 [] e = "W" -> 12 [] e = "O" -> 13]

\* Elements of the POTCAR shipped in each template folder.
potcar_elements(template) ==
    CASE template = "La_Pb_W_O" -> {"La", "Pb", "W", "O"}
      [] template = "Y_Pb_W_O"  -> {"Y", "Pb", "W", "O"}
      [] template = "Mo_Pb_W_O" -> {"Mo", "Pb", "W", "O"}
      [] OTHER                  -> {"Pb", "W", "O"}

Artifacts == {"POSCAR", "INCAR", "POTCAR", "KPOINTS", "job.justhpc"}
NoRef == "none"
Refs == {"supercell", "copy", "sorted"}

VARIABLES supercell_size, lattice, missing, n_entries,
          seen, cur, pc, err,
          heap, structure, mod_structure, removed_coords, di,
          template, nelect, charge,
          folders, files, incar_nelect, out

vars == << supercell_size, lattice, missing, n_entries, seen, cur, pc, err,
           heap, structure, mod_structure, removed_coords, di,
           template, nelect, charge, folders, files, incar_nelect, out >>

inputs == << supercell_size, lattice, missing, n_entries >>
locals == << heap, structure, mod_structure, removed_coords, di,
             template, nelect, charge >>
disk == << folders, files, incar_nelect >>

\* ------------------------------------------------------------ name.startswith
\* Faulty variant: the name is compared with the prefix as a whole.
startswith_whole(name, prefix) == name = prefix

startswith(name, prefix) ==
    /\ Len(name) >= Len(prefix)
    /\ SubSeq(name, 1, Len(prefix)) = prefix

reserved_prefix == <<"z">>

\* ---------------------------------------------------------- supercell builder
Period(m) == [a \in Axes |-> grid_size * Abs(m[a])]

\* phonon.get_supercell(): every unit-cell site replicated over the
\* |nx|*|ny|*|nz| lattice points, images of one site adjacent.
build_supercell_with_phonopy(unit, m) ==
    LET nx == Abs(m[1])
        ny == Abs(m[2])
        nz == Abs(m[3])
        T  == nx * ny * nz
    IN  [t \in 1..(Len(unit) * T) |->
            LET s == unit[((t - 1) \div T) + 1]
                r == (t - 1) % T
                i == r \div (ny * nz)
                j == (r \div nz) % ny
                k == r % nz
            IN  [el  |-> s.el,
                 c   |-> << s.c[1] + grid_size * i,
                            s.c[2] + grid_size * j,
                            s.c[3] + grid_size * k >>,
                 via |-> "cell"]]

\* The script hands supercell_size to Phonopy unchecked.  With positive
\* multipliers Phonopy returns the tiling; a zero multiplier gives a cell of
\* no volume, which Phonopy cannot build; with a negative multiplier the
\* outcome is the library's: it raises or it returns a supercell.
phonopy_outcomes(m) ==
    IF \A a \in Axes : m[a] > 0 THEN {"ok"}
    ELSE IF \E a \in Axes : m[a] = 0 THEN {"raise"}
    ELSE {"ok", "raise"}

\* ------------------------------------------------------- empty-site locator
MinImage(x, y, p) ==
    LET d == Abs(x - y) % p
    IN  IF 2 * d > p THEN p - d ELSE d

\* structure.lattice.get_all_distances(trial, coords) > min_distance for one
\* site: with d the periodic distance, d > 1.5 iff 4*d*d > 9, and d*d is the
\* sum over the axes of (numerator difference * edge / grid_size)^2.
dist_gt_min(trial, coord, P, lat) ==
    LET sq(a) == (MinImage(trial[a], coord[a], P[a]) * lat[a])
                   * (MinImage(trial[a], coord[a], P[a]) * lat[a])
    IN  4 * (sq(1) + sq(2) + sq(3))
          > (min_distance_halves * grid_size) * (min_distance_halves * grid_size)

\* Faulty variant: the first site of the structure is left out of the test.
accepts_but_first(trial, sites, P, lat) ==
    \A i \in 2..Len(sites) : dist_gt_min(trial, sites[i].c, P, lat)

\* np.all(dists > min_distance)
accepts(trial, sites, P, lat) ==
    \A i \in 1..Len(sites) : dist_gt_min(trial, sites[i].c, P, lat)

\* The idx-th trial of the three nested linspace loops (x outer, z inner),
\* as numerators over grid_size*|n|.
trial_at(idx, m) ==
    << (idx \div (grid_size * grid_size)) * Abs(m[1]),
       ((idx \div grid_size) % grid_size) * Abs(m[2]),
       (idx % grid_size) * Abs(m[3]) >>

\* The accepted trials with scan index in lo..hi, in scan order, cut after
\* the first `need` of them.
RECURSIVE scan(_, _, _, _, _, _)
scan(sites, m, lat, lo, hi, need) ==
    IF need <= 0 \/ lo > hi THEN <<>>
    ELSE IF lo = hi
         THEN IF accepts(trial_at(lo, m), sites, Period(m), lat)
              THEN <<trial_at(lo, m)>> ELSE <<>>
    ELSE LET mid   == (lo + hi) \div 2
             left  == scan(sites, m, lat, lo, mid, need)
         IN  left \o scan(sites, m, lat, mid + 1, hi, need - Len(left))

\* find_empty_sites(structure), of which the caller consumes the first
\* `need` candidates only.
find_empty_sites(sites, m, lat, need) ==
    scan(sites, m, lat, 0, grid_size * grid_size * grid_size - 1, need)

\* ------------------------------------------------------ defect delta applier
Min(a, b) == IF a < b THEN a ELSE b

RECURSIVE indices_from(_, _, _)
indices_from(s, elem, i) ==
    IF i > Len(s) THEN <<>>
    ELSE (IF s[i].el = elem THEN <<i>> ELSE <<>>) \o indices_from(s, elem, i + 1)

RECURSIVE without(_, _, _)
without(s, gone, i) ==
    IF i > Len(s) THEN <<>>
    ELSE (IF i \in gone THEN <<>> ELSE <<s[i]>>) \o without(s, gone, i + 1)

\* Faulty variant: no copy is taken, mod_structure is the caller's object.
copy_ref_alias(r) == r

\* structure.copy(): the copy is a new object.
copy_ref(r) == "copy"

\* len(indices) < abs(change)
not_enough(indices, change) == Len(indices) < Abs(change)

\* One pass of the removal loop for an entry with change < 0.
remove_elem(s, pool, elem, change) ==
    LET indices == indices_from(s, elem, 1)
        k       == Min(Abs(change), Len(indices))
        chosen  == SubSeq(indices, 1, k)
    IN  IF not_enough(indices, change)
        THEN [raised |-> TRUE, sites |-> s, pool |-> pool]
        ELSE [raised |-> FALSE,
              sites  |-> without(s, {chosen[t] : t \in 1..k}, 1),
              pool   |-> pool \o [t \in 1..k |-> s[chosen[k + 1 - t]].c]]

\* Faulty variant: the break comes one append early.
pool_coords_short(pool, change) == SubSeq(pool, 1, Min(change, Len(pool)) - 1)

\* The coordinates the loop over removed_coords appends before its break.
pool_coords(pool, change) == SubSeq(pool, 1, Min(change, Len(pool)))

\* Faulty variant: the comparison is turned round.
short_of_reversed(added, change) == added > change

\* added < change after both loops
short_of(added, change) == added < change

\* One pass of the addition loop for an entry with change > 0.
add_elem(s, pool, elem, change, m, lat) ==
    LET reuse == pool_coords(pool, change)
        s1    == s \o [t \in 1..Len(reuse) |->
                         [el |-> elem, c |-> reuse[t], via |-> "pool"]]
        need  == change - Len(reuse)
        found == IF need > 0 THEN find_empty_sites(s1, m, lat, need) ELSE <<>>
        s2    == s1 \o [t \in 1..Len(found) |->
                         [el |-> elem, c |-> found[t], via |-> "grid"]]
    IN  [raised  |-> short_of(Len(reuse) + Len(found), change),
         located |-> need > 0,
         sites   |-> s2]

\* ----------------------------------------------------------- canonical sorter
sort_key(site) ==
    IF \E i \in 1..Len(canonical_order) : canonical_order[i] = site.el
    THEN CHOOSE i \in 1..Len(canonical_order) : canonical_order[i] = site.el
    ELSE sort_sentinel

RECURSIVE sorted_from(_, _)
sorted_from(s, i) ==
    IF i > Len(canonical_order)
    THEN SelectSeq(s, LAMBDA x : sort_key(x) = sort_sentinel)
    ELSE SelectSeq(s, LAMBDA x : sort_key(x) = i) \o sorted_from(s, i + 1)

get_sorted_structure(s) == sorted_from(s, 1)

\* ---------------------------------------------------- valence/charge calculator
RECURSIVE zval_sum(_, _, _)
zval_sum(s, zval, i) ==
    IF i > Len(s) THEN 0 ELSE zval[s[i].el] + zval_sum(s, zval, i + 1)

get_valence_electrons(s, potcar) ==
    LET zval == [e \in potcar_elements(potcar) |-> ZvalHalves[e]]
    IN  IF \E i \in 1..Len(s) : s[i].el \notin DOMAIN zval
        THEN [raised |-> TRUE, total |-> 0]
        ELSE [raised |-> FALSE, total |-> zval_sum(s, zval, 1)]

\* Python's round(): to the nearest integer, a tie to the even one.
round(halves) ==
    IF halves % 2 = 0 THEN halves \div 2
    ELSE LET f == (halves - 1) \div 2
         IN  IF f % 2 = 0 THEN f ELSE f + 1

\* Faulty variant: the charge is subtracted.
nelect_of_minus(total, ch) == round(total) - ch

nelect_of(total, ch) == round(total) + ch

get_template_folder(delta) ==
    LET elements_added == {delta[i][1] : i \in {j \in 1..Len(delta) : delta[j][2] > 0}}
    IN  IF "La" \in elements_added THEN "La_Pb_W_O"
        ELSE IF "Y" \in elements_added THEN "Y_Pb_W_O"
        ELSE IF "Mo" \in elements_added THEN "Mo_Pb_W_O"
        ELSE "Pb_W_O"

exists(dir, file) == <<dir, file>> \notin missing

\* Faulty variant: the handler leaves the loop.
on_exception_abort(name, e) ==
    [line |-> [name |-> name, status |-> "fail", cause |-> e],
     next |-> "end"]

\* except Exception as e: print, and the for loop goes on.
on_exception(name, e) ==
    [line |-> [name |-> name, status |-> "fail", cause |-> e],
     next |-> "loop"]

\* ------------------------------------------------------------------- state
NoCur == [name |-> <<>>, has_delta |-> FALSE, delta |-> <<>>]
EmptyHeap == [r \in Refs |-> <<>>]

Init ==
    /\ \E w \in Worlds :
          /\ supercell_size = w.size
          /\ lattice = w.lattice
          /\ missing = w.missing
    /\ n_entries \in 0..MaxDefects
    /\ seen = <<>>
    /\ cur = NoCur
    /\ pc = "loop"
    /\ err = ""
    /\ heap = EmptyHeap
    /\ structure = NoRef
    /\ mod_structure = NoRef
    /\ removed_coords = <<>>
    /\ di = 0
    /\ template = ""
    /\ nelect = 0
    /\ charge = 0
    /\ folders = {}
    /\ files = [n \in Names |-> {}]
    /\ incar_nelect = [n \in Names |-> FALSE]
    /\ out = <<>>

SeenNames == {seen[i] : i \in 1..Len(seen)}

\* spec.get("delta", {})
delta_or_empty == IF cur.has_delta THEN cur.delta ELSE <<>>

\* The names bound in the loop body are dead once the body is left: they are
\* rebound before their next use.
ResetLocals ==
    /\ heap' = EmptyHeap
    /\ structure' = NoRef
    /\ mod_structure' = NoRef
    /\ removed_coords' = <<>>
    /\ di' = 0
    /\ template' = ""
    /\ nelect' = 0
    /\ charge' = 0

Raise(e) ==
    /\ pc' = "except"
    /\ err' = e

\* for name, spec in defect_data.items(): a reserved name is skipped.
SkipReserved ==
    /\ pc = "loop"
    /\ Len(seen) < n_entries
    /\ \E name \in Names \ SeenNames :
          /\ startswith(name, reserved_prefix)
          /\ seen' = Append(seen, name)
          /\ out' = Append(out, [name |-> name, status |-> "skip", cause |-> ""])
    /\ UNCHANGED << inputs, cur, pc, err, locals, disk >>

\* The next entry is a defect: folder.mkdir(exist_ok=True).
BeginDefect ==
    /\ pc = "loop"
    /\ Len(seen) < n_entries
    /\ \E name \in Names \ SeenNames, has \in BOOLEAN, delta \in Deltas :
          /\ ~startswith(name, reserved_prefix)
          /\ has \/ delta = <<>>
          /\ seen' = Append(seen, name)
          /\ cur' = [name |-> name, has_delta |-> has, delta |-> delta]
          /\ folders' = folders \cup {name}
    /\ pc' = "build"
    /\ UNCHANGED << inputs, err, locals, files, incar_nelect, out >>

\* defect_data has no further entry.
EndOfData ==
    /\ pc = "loop"
    /\ Len(seen) = n_entries
    /\ pc' = "end"
    /\ UNCHANGED << inputs, seen, cur, err, locals, disk, out >>

\* structure = build_supercell_with_phonopy(unitcell_structure, supercell_size)
BuildSupercell ==
    /\ pc = "build"
    /\ \E outcome \in phonopy_outcomes(supercell_size) :
          IF outcome = "ok"
          THEN /\ heap' = [heap EXCEPT !["supercell"] =
                     build_supercell_with_phonopy(unitcell_structure, supercell_size)]
               /\ structure' = "supercell"
               /\ pc' = "apply"
               /\ UNCHANGED err
          ELSE /\ Raise("phonopy")
               /\ UNCHANGED << heap, structure >>
    /\ UNCHANGED << inputs, seen, cur, mod_structure, removed_coords, di,
                    template, nelect, charge, disk, out >>

\* apply_defect: mod_structure = structure.copy(); removed_coords = []
ApplyCopy ==
    /\ pc = "apply"
    /\ mod_structure' = copy_ref(structure)
    /\ heap' = [heap EXCEPT ![copy_ref(structure)] = heap[structure]]
    /\ removed_coords' = <<>>
    /\ di' = 1
    /\ pc' = "remove"
    /\ UNCHANGED << inputs, seen, cur, err, structure, template, nelect, charge,
                    disk, out >>

\* One iteration of the first loop over delta.items().
RemoveElem ==
    /\ pc = "remove"
    /\ di <= Len(delta_or_empty)
    /\ LET elem   == delta_or_empty[di][1]
           change == delta_or_empty[di][2]
           r      == remove_elem(heap[mod_structure], removed_coords, elem, change)
       IN  IF change < 0
           THEN IF r.raised
                THEN /\ Raise("not_enough")
                     /\ UNCHANGED << heap, removed_coords, di >>
                ELSE /\ heap' = [heap EXCEPT ![mod_structure] = r.sites]
                     /\ removed_coords' = r.pool
                     /\ di' = di + 1
                     /\ UNCHANGED << pc, err >>
           ELSE /\ di' = di + 1
                /\ UNCHANGED << heap, removed_coords, pc, err >>
    /\ UNCHANGED << inputs, seen, cur, structure, mod_structure, template,
                    nelect, charge, disk, out >>

\* The first loop is exhausted; the second starts.
RemoveDone ==
    /\ pc = "remove"
    /\ di > Len(delta_or_empty)
    /\ di' = 1
    /\ pc' = "add"
    /\ UNCHANGED << inputs, seen, cur, err, heap, structure, mod_structure,
                    removed_coords, template, nelect, charge, disk, out >>

\* One iteration of the second loop over delta.items().
AddElem ==
    /\ pc = "add"
    /\ di <= Len(delta_or_empty)
    /\ LET elem   == delta_or_empty[di][1]
           change == delta_or_empty[di][2]
           r      == add_elem(heap[mod_structure], removed_coords, elem, change,
                              supercell_size, lattice)
       IN  IF change > 0
           THEN IF r.raised
                THEN /\ Raise("no_space")
                     /\ heap' = [heap EXCEPT ![mod_structure] = r.sites]
                     /\ UNCHANGED di
                ELSE /\ heap' = [heap EXCEPT ![mod_structure] = r.sites]
                     /\ di' = di + 1
                     /\ UNCHANGED << pc, err >>
           ELSE /\ di' = di + 1
                /\ UNCHANGED << heap, pc, err >>
    /\ UNCHANGED << inputs, seen, cur, structure, mod_structure, removed_coords,
                    template, nelect, charge, disk, out >>

\* return mod_structure, bound to structure by the caller.
AddDone ==
    /\ pc = "add"
    /\ di > Len(delta_or_empty)
    /\ structure' = mod_structure
    /\ pc' = "sort"
    /\ UNCHANGED << inputs, seen, cur, err, heap, mod_structure, removed_coords,
                    di, template, nelect, charge, disk, out >>

\* get_sorted_structure, then Poscar(structure).write_file(folder / "POSCAR")
SortAndWritePoscar ==
    /\ pc = "sort"
    /\ heap' = [heap EXCEPT !["sorted"] = get_sorted_structure(heap[structure])]
    /\ structure' = "sorted"
    /\ files' = [files EXCEPT ![cur.name] = @ \cup {"POSCAR"}]
    /\ pc' = "template"
    /\ UNCHANGED << inputs, seen, cur, err, mod_structure, removed_coords, di,
                    template, nelect, charge, folders, incar_nelect, out >>

\* get_template_folder(spec["delta"]) and the two existence checks.
SelectTemplate ==
    /\ pc = "template"
    /\ IF ~cur.has_delta
       THEN /\ Raise("KeyError")
            /\ UNCHANGED template
       ELSE LET t == get_template_folder(cur.delta)
            IN  /\ template' = t
                /\ IF ~exists(t, "POTCAR") THEN Raise("missing_potcar")
                   ELSE IF ~exists("z_input", "KPOINTS") THEN Raise("missing_kpoints")
                   ELSE pc' = "copy" /\ UNCHANGED err
    /\ UNCHANGED << inputs, seen, cur, heap, structure, mod_structure,
                    removed_coords, di, nelect, charge, disk, out >>

\* The three shutil.copy calls.
CopyInputs ==
    /\ pc = "copy"
    /\ IF ~exists(template, "INCAR")
       THEN /\ Raise("missing_incar")
            /\ UNCHANGED files
       ELSE /\ files' = [files EXCEPT ![cur.name] = @ \cup {"INCAR", "POTCAR", "KPOINTS"}]
            /\ pc' = "nelect"
            /\ UNCHANGED err
    /\ UNCHANGED << inputs, seen, cur, locals, folders, incar_nelect, out >>

\* nelect = round(get_valence_electrons(...)) + spec.get("charge", 0), and
\* incar["NELECT"] = nelect is written to the folder's INCAR: incar_nelect
\* records that the INCAR carries the value of nelect.
PatchNelect ==
    /\ pc = "nelect"
    /\ LET v == get_valence_electrons(heap[structure], template)
       IN  IF v.raised
           THEN /\ Raise("not_in_potcar")
                /\ UNCHANGED << nelect, charge, incar_nelect >>
           ELSE \E ch \in Charges :
                   /\ charge' = ch
                   /\ nelect' = nelect_of(v.total, ch)
                   /\ incar_nelect' = [incar_nelect EXCEPT ![cur.name] = TRUE]
                   /\ pc' = "job"
                   /\ UNCHANGED err
    /\ UNCHANGED << inputs, seen, cur, heap, structure, mod_structure,
                    removed_coords, di, template, folders, files, out >>

\* The job script is read, rewritten with the defect's name, and the success
\* line (with nelect) is printed.
WriteJob ==
    /\ pc = "job"
    /\ IF ~exists("z_input", "job.justhpc")
       THEN /\ Raise("missing_job")
            /\ UNCHANGED << locals, files, out, cur >>
       ELSE /\ files' = [files EXCEPT ![cur.name] = @ \cup {"job.justhpc"}]
            /\ out' = Append(out, [name |-> cur.name, status |-> "done",
                                   cause |-> ""])
            /\ pc' = "loop"
            /\ cur' = NoCur
            /\ ResetLocals
            /\ UNCHANGED err
    /\ UNCHANGED << inputs, seen, folders, incar_nelect >>

\* except Exception as e: print(name, e)
ExceptHandler ==
    /\ pc = "except"
    /\ out' = Append(out, on_exception(cur.name, err).line)
    /\ pc' = on_exception(cur.name, err).next
    /\ err' = ""
    /\ cur' = NoCur
    /\ ResetLocals
    /\ UNCHANGED << inputs, seen, disk >>

Next ==
    \/ SkipReserved
    \/ BeginDefect
    \/ EndOfData
    \/ BuildSupercell
    \/ ApplyCopy
    \/ RemoveElem
    \/ RemoveDone
    \/ AddElem
    \/ AddDone
    \/ SortAndWritePoscar
    \/ SelectTemplate
    \/ CopyInputs
    \/ PatchNelect
    \/ WriteJob
    \/ ExceptHandler

Spec == Init /\ [][Next]_vars

\* ================================================================== claims
Elements == {"La", "Y", "Mo", "Pb", "W", "O"}

Count(s, e) == Cardinality({i \in 1..Len(s) : s[i].el = e})

\* The supercell handed to apply_defect.
InputCell == build_supercell_with_phonopy(unitcell_structure, supercell_size)

\* The change the current delta asks for element e.
DeltaOf(e) ==
    IF \E i \in 1..Len(delta_or_empty) : delta_or_empty[i][1] = e
    THEN delta_or_empty[CHOOSE i \in 1..Len(delta_or_empty) : delta_or_empty[i][1] = e][2]
    ELSE 0

NonPositive(m) == \E a \in Axes : m[a] <= 0
ValidMultiplier == ~NonPositive(supercell_size)

IsReserved(n) == Len(n) >= 1 /\ n[1] = "z"

Processed == {n \in SeenNames : ~IsReserved(n) /\ n # cur.name}

\* apply_defect has returned and its result is still bound unsorted to
\* mod_structure.
Returned == pc = "sort"
Result == heap[mod_structure]

\* C1: once the processing of a non-reserved DefectSpec has ended, its folder
\* holds all five artifacts (the INCAR carrying NELECT) or no file at all
\* (stated for the runs with a valid multiplier).
C1_AllOrNothing ==
    ValidMultiplier => \A n \in Processed :
        \/ files[n] = {} /\ ~incar_nelect[n]
        \/ files[n] = Artifacts /\ incar_nelect[n]

\* C2: a failure in one DefectSpec is caught and the loop goes on: when the
\* run ends every entry of the document has been iterated, and the outcome
\* lines are one per entry in iteration order, a success or failure line for
\* each non-reserved one; a failure line names the cause.
C2_Isolation ==
    /\ pc \in {"loop", "end"} =>
          /\ Len(out) = Len(seen)
          /\ \A i \in 1..Len(seen) :
                /\ out[i].name = seen[i]
                /\ IsReserved(seen[i]) <=> out[i].status = "skip"
                /\ out[i].status \in {"skip", "done", "fail"}
                /\ out[i].status = "fail" <=> out[i].cause # ""
                /\ out[i].status = "done" <=>
                      (files[seen[i]] = Artifacts /\ incar_nelect[seen[i]])
    /\ pc = "end" => Len(seen) = n_entries

C2_Witness ==
    /\ pc = "end"
    /\ \E i, j \in 1..Len(out) :
          i < j /\ out[i].status = "fail" /\ out[j].status = "done"

\* C3: in the structure apply_defect returns, each vacated coordinate holds
\* at most one added atom (stated for the runs with a valid multiplier).
C3_PoolConsumed ==
    (Returned /\ ValidMultiplier) =>
        \A t \in 1..Len(removed_coords) :
            Cardinality({i \in 1..Len(Result) :
                            Result[i].via # "cell" /\ Result[i].c = removed_coords[t]}) <= 1

\* A delta {E: -k, F: +k}, and the sites apply_defect added, kept and vacated.
IsSwap ==
    /\ cur.has_delta
    /\ Len(cur.delta) = 2
    /\ \E i, j \in 1..2 :
          /\ i # j
          /\ cur.delta[i][2] < 0
          /\ cur.delta[j][2] = -cur.delta[i][2]

SwapE == cur.delta[CHOOSE i \in 1..2 : cur.delta[i][2] < 0][1]
SwapF == cur.delta[CHOOSE i \in 1..2 : cur.delta[i][2] > 0][1]
SwapK == cur.delta[CHOOSE i \in 1..2 : cur.delta[i][2] > 0][2]

Coords(s, I) == {s[i].c : i \in I}
AddedIdx == {i \in 1..Len(Result) : Result[i].via # "cell"}
KeptIdx == {i \in 1..Len(Result) : Result[i].via = "cell"}
Vacated == Coords(InputCell, 1..Len(InputCell)) \ Coords(Result, KeptIdx)

\* C4: for a delta {E: -k, F: +k} the returned structure has as many sites
\* as the input, the added sites are k sites of F on exactly the coordinates
\* of the k removed E sites, and none was placed by the locator.
C4_SwapInPlace ==
    (Returned /\ IsSwap) =>
        /\ Len(Result) = Len(InputCell)
        /\ Cardinality(AddedIdx) = SwapK
        /\ \A i \in AddedIdx : Result[i].el = SwapF /\ Result[i].via = "pool"
        /\ Cardinality(Vacated) = SwapK
        /\ Coords(Result, AddedIdx) = Vacated
        /\ Vacated \subseteq Coords(InputCell, {i \in 1..Len(InputCell) : InputCell[i].el = SwapE})

C4_Witness ==
    /\ Returned
    /\ IsSwap
    /\ SwapK >= 2

\* The grid points the locator accepts, and an addition whose supply is short.
GridSupply(sites) ==
    Cardinality({idx \in 0..(grid_size * grid_size * grid_size - 1) :
                    accepts(trial_at(idx, supercell_size), sites,
                            Period(supercell_size), lattice)})

AddingShort ==
    /\ pc = "add"
    /\ di <= Len(delta_or_empty)
    /\ delta_or_empty[di][2] > Len(removed_coords)
    /\ Len(removed_coords)
         + GridSupply(heap[mod_structure]
                        \o [t \in 1..Len(removed_coords) |->
                              [el |-> delta_or_empty[di][1], c |-> removed_coords[t],
                               via |-> "pool"]])
         < delta_or_empty[di][2]

RECURSIVE SumChanges(_, _)
SumChanges(delta, i) ==
    IF i > Len(delta) THEN 0 ELSE delta[i][2] + SumChanges(delta, i + 1)

CountsAddUp ==
    Returned =>
        /\ \A e \in Elements : Count(Result, e) = Count(InputCell, e) + DeltaOf(e)
        /\ Len(Result) = Len(InputCell) + SumChanges(delta_or_empty, 1)

\* C5: when apply_defect returns, every element's site count is its count in
\* the input plus its delta; and an element whose positive delta exceeds the
\* recorded vacancies plus the grid points the locator accepts makes the call
\* fail with the insufficient-space error.
C5_CountsOrNoSpace ==
    /\ []CountsAddUp
    /\ [][AddingShort => (pc' = "except" /\ err' = "no_space")]_vars

C5_Witness ==
    /\ pc = "except"
    /\ err = "no_space"
    /\ Len(removed_coords) > 0

\* A delta asking for more atoms of an element than the supercell holds.
Insufficient ==
    \E i \in 1..Len(delta_or_empty) :
        /\ delta_or_empty[i][2] < 0
        /\ Count(InputCell, delta_or_empty[i][1]) < -delta_or_empty[i][2]

InApply ==
    \/ pc \in {"remove", "add", "sort"}
    \/ pc = "except" /\ err \in {"not_enough", "no_space"}

\* C6: a delta that removes more atoms of an element than the supercell has
\* never gets past the removal loop and fails with the insufficient-atoms
\* error, wherever the element stands in the delta; and the structure the
\* caller passed in still equals the supercell while apply_defect runs, when
\* it returns and when it raises.
C6_RemovalChecked ==
    /\ InApply => heap["supercell"] = InputCell
    /\ (cur # NoCur /\ Insufficient) =>
          /\ pc \in {"build", "apply", "remove", "except"}
          /\ pc = "except" => err \in {"not_enough", "phonopy"}
    /\ (pc = "except" /\ err = "not_enough") => Insufficient

C6_Witness ==
    /\ pc = "except"
    /\ err = "not_enough"
    /\ Len(removed_coords) > 0
    /\ heap[mod_structure] # heap["supercell"]

\* The total valence counted element by element, and rounding stated directly.
RECURSIVE ValenceByElement(_, _)
ValenceByElement(s, i) ==
    IF i > Len(canonical_order) THEN 0
    ELSE Count(s, canonical_order[i]) * ZvalHalves[canonical_order[i]]
           + ValenceByElement(s, i + 1)

IsRounded(n, halves) ==
    /\ 2 * n - halves \in {-1, 0, 1}
    /\ 2 * n - halves # 0 => n % 2 = 0

Covered(s, t) == \A i \in 1..Len(s) : s[i].el \in potcar_elements(t)

\* C7: the NELECT written is the total valence of the sites, rounded once to
\* the nearest integer (a tie to the even one), plus the charge; it is the
\* same for the sorted and the unsorted order of the sites; and no NELECT is
\* written when the POTCAR lacks an element of the structure.
C7_Nelect ==
    /\ pc = "job" =>
          /\ IsRounded(nelect - charge, ValenceByElement(heap[mod_structure], 1))
          /\ incar_nelect[cur.name]
    /\ (cur # NoCur /\ incar_nelect[cur.name]) => Covered(heap[mod_structure], template)
    /\ (pc = "except" /\ err = "not_in_potcar") =>
          /\ ~Covered(heap[mod_structure], template)
          /\ ~incar_nelect[cur.name]

C7_Witness ==
    /\ pc = "job"
    /\ charge # 0
    /\ ValenceByElement(heap[mod_structure], 1) % 2 = 1
    /\ heap[structure] # heap[mod_structure]

\* C8: with a multiplier that has a zero or negative entry the build fails:
\* no defect reaches delta application and no POSCAR is written.
C8_InvalidMultiplier ==
    NonPositive(supercell_size) =>
        /\ pc \in {"loop", "build", "except", "end"}
        /\ pc = "except" => err = "phonopy"
        /\ \A n \in Names : "POSCAR" \notin files[n]

\* C9: for a name that starts with "z" no folder is created, no file is
\* written, it never becomes the defect being processed, and the loop goes on
\* to the next entry.
C9_ReservedSkipped ==
    \A n \in Names :
        IsReserved(n) =>
            /\ n \notin folders
            /\ files[n] = {}
            /\ ~incar_nelect[n]
            /\ cur.name # n
            /\ \A i \in 1..Len(out) : out[i].name = n => out[i].status = "skip"

C9_Witness ==
    /\ pc = "end"
    /\ \E i, j \in 1..Len(out) :
          i < j /\ out[i].status = "skip" /\ out[j].status = "done"

\* Sites placed by the locator, and the distance test between two sites.
FarApart(s, i, j) ==
    dist_gt_min(s[i].c, s[j].c, Period(supercell_size), lattice)

GridIdx == {i \in 1..Len(Result) : Result[i].via = "grid"}

\* C10 (as claimed): every site placed through the locator is farther than
\* min_distance from every other site of the returned structure (stated for
\* the runs with a valid multiplier).
C10_LocatedFarFromAll ==
    (Returned /\ ValidMultiplier) =>
        \A i \in GridIdx : \A j \in 1..Len(Result) : j # i => FarApart(Result, i, j)

\* Two sites placed by one locator invocation (the keys of a delta are distinct).
SameInvocation(s, i, j) ==
    s[i].via = "grid" /\ s[j].via = "grid" /\ s[i].el = s[j].el

\* C10 (amended): every site placed through the locator is farther than
\* min_distance from every other site of the returned structure, except the
\* other sites placed by the same locator invocation.
C10_LocatedFarFromOthers ==
    Returned =>
        \A i \in GridIdx : \A j \in 1..Len(Result) :
            (j # i /\ ~SameInvocation(Result, i, j)) => FarApart(Result, i, j)

C10_Witness ==
    /\ Returned
    /\ ValidMultiplier
    /\ \E i, j \in GridIdx : Result[i].el # Result[j].el
    /\ \E i, j \in GridIdx : i # j /\ Result[i].el = Result[j].el

====
